---- MODULE Spec2Model ----
(***************************************************************************)
(* Model of workflows/fetch-any-quic/scripts/fetch_with_vpn.py:            *)
(* the WireguardGateway lifecycle, the BrowserPeer collection loop and     *)
(* TraceCollectionExperiment.run, executed as asyncio tasks on one event   *)
(* loop.  A step of a task runs from one suspension point (await) to the   *)
(* next; the loop's ready queue is FIFO.                                   *)
(***************************************************************************)
EXTENDS Integers, Sequences, FiniteSets, TLC

\* ------------------------------------------------------------------ bounds
NAgents == 2        \* number of client nodes (BrowserPeers)
NBatches == 2       \* --n-batches
MaxCancels == 1     \* external cancellations of the coordinator task
MaxStarts == 2      \* gateway containers launched by the lifecycle driver
MaxStops == 3       \* stop() calls made by the lifecycle driver
MaxN == 2           \* largest --n-batches of a single agent run on its own
MaxLines == 2       \* lines an agent's checkpoint file can hold
MaxRuns == 2        \* runs of one agent on the same checkpoint file
MaxAttempts == 2    \* --max-attempts
MaxCount == 3       \* largest count given to the batch planner
MaxUrls == 4        \* longest url list given to an experiment
MaxNodes == 3       \* most client nodes given to an experiment
MaxPeers == 2       \* most client configs made for one gateway config

Agents == 1..NAgents
Coord == 0          \* task id of the coordinator (TraceCollectionExperiment.run)
None == 0           \* WireguardGateway._container_id is None
ContainerIds == 1..MaxStarts

\* ------------------------------------------------------------------ errors
NoError == <<"none", 0>>
CancelledError == <<"CancelledError", 0>>
StartError == <<"StartError", 0>>
ErrorReturnCode(a) == <<"ErrorReturnCode", a>>

VARIABLES
    py37,          \* TRUE: asyncio.CancelledError is an Exception (Python 3.7)
    container_id,  \* WireguardGateway._container_id
    containers,    \* docker daemon: container id -> "absent"|"running"|"exited"|"removed"
    dockerLog,     \* docker commands issued by the gateway, in order
    stopCalls,     \* number of calls of WireguardGateway.stop()
    startOk,       \* number of calls of WireguardGateway.start() that returned
    startFault,    \* a command issued by start() failed
    cpc,           \* coordinator position
    cwaiting,      \* coordinator sleeps on a timer that has not fired
    cmust,         \* coordinator's next step receives CancelledError
    cerr,          \* error raised by run(), NoError if none
    pendingErr,    \* exception being handled by the except block of run()
    ncancel,       \* cancellations of the coordinator so far
    remaining,     \* per agent: result of _recover_from_checkpoint()
    apc,           \* per agent task position
    procs,         \* per agent: status of the external process of each round
    outcome,       \* per agent task outcome
    awaiting,      \* per agent: sleeping on a timer that has not fired
    acancel,       \* per agent: next step receives CancelledError
    sawCancel,     \* per agent: a CancelledError was delivered to the task
    configPushed,  \* per agent: number of put_text of the client config
    firstErr,      \* error of the first agent task that finished with an error
    version_ctr,   \* FetchOptions.version_ctr, the configured work plan
    n_batches,     \* BrowserPeer.n_batches
    checkpoint,    \* per agent: the lines of its checkpoint file
    batch_ctr,     \* per agent: the batch computed by run()
    requests,      \* per agent: for each round, the --version-ctr given to
                   \* the process and the checkpoint length at its start
    pastRuns,      \* per agent: outcomes of its earlier runs on this checkpoint
    onDisk,        \* the agents whose checkpoint file exists
    urlfile,       \* the urls given to TraceCollectionExperiment, in order
    clients,       \* TraceCollectionExperiment.clients (the BrowserPeers)
    wg,            \* TraceCollectionExperiment.gateway.wg_conf
    rendered,      \* the value of the last to_string() call
    pushed,        \* text start() wrote to /tmp/wg0.conf on the gateway node
    returned,      \* the list returned by TraceCollectionExperiment.run
    mainpc,        \* position of main()
    outfile,       \* the lines main() has written to OUTFILE
    unlinked,      \* agents whose checkpoint file main() has removed
    g1,            \* asyncio.gather(*tasks)
    g2,            \* asyncio.gather(*tasks, return_exceptions=True)
    ready          \* the event loop's FIFO queue of ready callbacks

gwvars == <<container_id, containers, dockerLog, stopCalls, startOk,
            startFault>>
covars == <<cpc, cwaiting, cmust, cerr, pendingErr, ncancel>>
agvars == <<remaining, apc, procs, outcome, awaiting, acancel, sawCancel,
            configPushed, firstErr>>
plvars == <<version_ctr, n_batches, checkpoint, onDisk, batch_ctr, requests,
            pastRuns>>
cfvars == <<urlfile, clients, wg, rendered>>
mnvars == <<mainpc, outfile, unlinked>>
vars == <<py37, gwvars, covars, agvars, plvars, cfvars, pushed, returned,
          mnvars, g1, g2, ready>>

\* ----------------------------------------------------------- batch planner
Versions == {"h3", "tcp"}
Urls == {"u1", "u2"}

MaxAsMin(S) == CHOOSE x \in S : \A y \in S : x <= y

Max(S) == CHOOSE x \in S : \A y \in S : y <= x

CeilFloor(value, n) == value \div n

CeilPlusOne(value, n) == value \div n + 1

CeilSwapped(value, n) == (n + value - 1) \div value

\* math.ceil(value / n) for a positive value
Ceil(value, n) == (value + n - 1) \div n

\* a planner that keeps every key it has seen, whatever its count
batchKeepsZero(rem, n) ==
    LET keys == UNION {DOMAIN rem[u] : u \in DOMAIN rem}
        MaxOf(k) == Max({rem[u][k] : u \in {v \in DOMAIN rem : k \in DOMAIN rem[v]}}
                        \cup {0})
    IN  [k \in keys |-> Ceil(MaxOf(k), n)]

\* batch(remaining, n_batches): elementwise maximum of the counters,
\* non-positive counts removed, then ceil(value / n_batches)
batch(rem, n) ==
    LET keys == UNION {DOMAIN rem[u] : u \in DOMAIN rem}
        MaxOf(k) == Max({rem[u][k] : u \in {v \in DOMAIN rem : k \in DOMAIN rem[v]}}
                        \cup {0})
        counter == [k \in {j \in keys : MaxOf(j) > 0} |-> MaxOf(k)]
    IN  [k \in DOMAIN counter |-> Ceil(counter[k], n)]

EmptyDict == [u \in {} |-> 0]
EmptyCounter == [k \in {} |-> 0]

\* ------------------------------------------------------------- checkpoint
\* One line of a checkpoint file: the url, the version and whether the
\* collection succeeded.
Outcomes == [url : Urls, version : Versions, ok : BOOLEAN]

OutcomesOf(ckpt, u, k) ==
    SelectSeq(ckpt, LAMBDA o : o.url = u /\ o.version = k)

Successes(ckpt, u, k) ==
    Len(SelectSeq(ckpt, LAMBDA o : o.url = u /\ o.version = k /\ o.ok))

\* number of failures since the last success
RECURSIVE TrailingFailures(_)
TrailingFailures(s) ==
    IF s = <<>> \/ s[Len(s)].ok THEN 0
    ELSE 1 + TrailingFailures(SubSeq(s, 1, Len(s) - 1))

\* what is still needed of version k for url u: nothing once max_attempts
\* consecutive failures were seen, else the requested count less the
\* successes, never below zero
Needed(ckpt, u, k, vc, max_attempts) ==
    IF TrailingFailures(OutcomesOf(ckpt, u, k)) >= max_attempts THEN 0
    ELSE IF vc[k] > Successes(ckpt, u, k) THEN vc[k] - Successes(ckpt, u, k)
    ELSE 0

\* lab.fetch_websites.filter_by_checkpoint: url -> Counter of what is still
\* needed; versions that need nothing and urls with nothing left are dropped
filter_by_checkpoint(urls, ckpt, vc, max_attempts) ==
    LET plan(u) == [k \in {j \in DOMAIN vc : Needed(ckpt, u, j, vc, max_attempts) > 0}
                        |-> Needed(ckpt, u, k, vc, max_attempts)]
    IN  [u \in {v \in urls : DOMAIN plan(v) # {}} |-> plan(u)]

\* BrowserPeer.urls as a set of url names: the agents that were given urls
\* collect the same two urls, an agent that was given none has none
AgentUrls(a) == IF Len(clients[a].urls) = 0 THEN {} ELSE Urls

\* BrowserPeer._recover_from_checkpoint; a file that does not exist gives
\* the empty checkpoint
recover_from_checkpoint(a) ==
    filter_by_checkpoint(AgentUrls(a),
                         IF a \in onDisk THEN checkpoint[a] ELSE <<>>,
                         version_ctr, MaxAttempts)

\* the work plan of the experiment and the checkpoint of an agent whose
\* collection is complete
DefaultPlan == [k \in {"h3"} |-> 2]
CompleteCheckpoint ==
    [i \in 1..4 |-> [url |-> IF i <= 2 THEN "u1" ELSE "u2",
                     version |-> "h3", ok |-> TRUE]]


\* ----------------------------------------------------------- wireguard.py
DEFAULT_ENDPOINT_PORT == 51888

\* "\n".join(lines)
RECURSIVE Join(_, _)
Join(lines, sep) ==
    IF Len(lines) = 0 THEN ""
    ELSE IF Len(lines) = 1 THEN lines[1]
    ELSE lines[1] \o sep \o Join(Tail(lines), sep)

\* BasicConfig / ClientConfig: a client that no gateway has been set for
ClientConfig(address, private_key, public_key) ==
    [address |-> address, private_key |-> private_key,
     public_key |-> public_key, gateway |-> FALSE]

\* GatewayConfig(endpoint): the fixed address 10.0.0.1 and no clients
GatewayConfig(endpoint, private_key, public_key) ==
    [address |-> "10.0.0.1", private_key |-> private_key,
     public_key |-> public_key, endpoint |-> endpoint, clients |-> <<>>]

set_clientsNone(conf, cs) == conf

\* GatewayConfig.set_clients: the list is cleared, then every client gets
\* its back-reference and is appended
set_clients(conf, cs) ==
    [conf EXCEPT !.clients = [i \in 1..Len(cs) |-> [cs[i] EXCEPT !.gateway = TRUE]]]

PeerBlock(c) ==
    <<"[Peer]",
      "PublicKey = " \o c.public_key,
      "AllowedIPs = " \o c.address \o "/32",
      "">>

RECURSIVE PeerBlocks(_)
PeerBlocks(cs) ==
    IF Len(cs) = 0 THEN <<>> ELSE PeerBlock(cs[1]) \o PeerBlocks(Tail(cs))

InterfaceBlock(conf) ==
    <<"[Interface]",
      "PrivateKey = " \o conf.private_key,
      "Address = " \o conf.address \o "/24",
      "ListenPort = 51888",
      "PostUp = iptables -t nat -A POSTROUTING -o eth0 -j MASQUERADE",
      "PostDown = iptables -t nat -D POSTROUTING -o eth0 -j MASQUERADE",
      "">>

\* a rendering that writes the peers first
GatewayToStringPeersFirst(conf) ==
    Join(PeerBlocks(conf.clients) \o InterfaceBlock(conf), "\n")

\* GatewayConfig.to_string
GatewayToString(conf) ==
    Join(InterfaceBlock(conf) \o PeerBlocks(conf.clients), "\n")

ClientRenderableAlways(c, gw) == TRUE

\* the assert of ClientConfig.to_string: a gateway with an endpoint, and an
\* address
ClientRenderable(c, gw) == c.gateway /\ gw.endpoint # "" /\ c.address # ""

\* a rendering that names the client's own key as its peer
ClientToStringOwnKey(c, gw) ==
    Join(<<"[Interface]",
           "PrivateKey = " \o c.private_key,
           "Address = " \o c.address \o "/32",
           "",
           "[Peer]",
           "PublicKey = " \o c.public_key,
           "Endpoint = " \o gw.endpoint \o ":" \o ToString(DEFAULT_ENDPOINT_PORT),
           "AllowedIPs = 0.0.0.0/0",
           "">>, "\n")

\* ClientConfig.to_string, gw being the gateway the client refers to
ClientToString(c, gw) ==
    Join(<<"[Interface]",
           "PrivateKey = " \o c.private_key,
           "Address = " \o c.address \o "/32",
           "",
           "[Peer]",
           "PublicKey = " \o gw.public_key,
           "Endpoint = " \o gw.endpoint \o ":" \o ToString(DEFAULT_ENDPOINT_PORT),
           "AllowedIPs = 0.0.0.0/0",
           "">>, "\n")

GatewayAfterClientRenderRebinds(gw, c) == set_clients(gw, <<c>>)

\* what ClientConfig.to_string leaves of the gateway it reads: all of it
GatewayAfterClientRender(gw, c) == gw

\* ------------------------------------------- experiment construction
CheckpointDir == "ckpt"

\* str.replace for one-character old
RECURSIVE Replace(_, _, _)
Replace(str, old, new) ==
    IF Len(str) = 0 THEN ""
    ELSE (IF SubSeq(str, 1, 1) = old THEN new ELSE SubSeq(str, 1, 1))
         \o Replace(SubSeq(str, 2, Len(str)), old, new)

\* str.rfind for one character, 0-based, -1 when absent
RECURSIVE RFind(_, _)
RFind(str, ch) ==
    IF Len(str) = 0 THEN -1
    ELSE IF SubSeq(str, Len(str), Len(str)) = ch THEN Len(str) - 1
    ELSE RFind(SubSeq(str, 1, Len(str) - 1), ch)

\* PurePath.with_suffix on a file name: the part from the last dot on is
\* the old suffix, unless that dot starts or ends the name
with_suffix(name, suffix) ==
    LET i == RFind(name, ".")
    IN  IF 0 < i /\ i < Len(name) - 1
        THEN SubSeq(name, 1, i) \o suffix
        ELSE name \o suffix

slugNoReplace(wg_conf) == "peer-" \o wg_conf.address

\* BrowserPeer.slug
slug(wg_conf) == "peer-" \o Replace(wg_conf.address, ".", "_")

\* str(BrowserPeer.checkpoint_path)
checkpoint_path(dir, wg_conf) ==
    dir \o "/" \o with_suffix(slug(wg_conf), ".state")

\* a url list keeps, of each url, its place in the list and whether it has
\* an explicit port
UrlItem(pos, port) == [pos |-> pos, port |-> port]

\* _filter_urls: urls with a port are dropped
filter_urls(urls) == SelectSeq(urls, LAMBDA u : ~u.port)

SliceAll(urls, i, k) == urls

\* urls[i::k], i counted from 0
Slice(urls, i, k) ==
    [j \in 1..((Len(urls) - i + k - 1) \div k) |-> urls[i + 1 + (j - 1) * k]]

\* BrowserPeer.__init__, as far as the files and urls go
BrowserPeer(wg_conf, urls, dir, node) ==
    [wg_conf |-> wg_conf, urls |-> filter_urls(urls), node |-> node,
     checkpoint_path |-> checkpoint_path(dir, wg_conf)]

\* the key pair "wg genkey" gives client number n
ClientKey(n, which) == "client" \o ToString(n) \o "_" \o which

\* TraceCollectionExperiment.__init__: one BrowserPeer per client node with
\* the address 10.0.0.(i+2) and the urls i, i+k, ...; then all client
\* configs are set on the gateway config
Experiment(urls, nodes, endpoint, gwkey) ==
    LET k == Len(nodes)
        conf(i) == ClientConfig("10.0.0." \o ToString(i + 2),
                                ClientKey(i + 1, "privkey"),
                                ClientKey(i + 1, "pubkey"))
        peers == [n \in 1..k |->
                    BrowserPeer(conf(n - 1), Slice(urls, n - 1, k),
                                CheckpointDir, nodes[n])]
        gw == set_clients(GatewayConfig(endpoint, gwkey \o "privkey",
                                        gwkey \o "pubkey"),
                          [n \in 1..k |-> peers[n].wg_conf])
    IN  [clients |-> [n \in 1..k |->
                        [peers[n] EXCEPT !.wg_conf.gateway =
                            (\E m \in 1..Len(gw.clients) :
                                gw.clients[m].address
                                    = peers[n].wg_conf.address)]],
         wg |-> gw]

\* the experiment of NAgents client nodes made with the url list urls
ShardExperiment(urls) ==
    Experiment(urls, [n \in 1..NAgents |-> "localhost"], "203.0.113.5", "")

\* the experiment the collection runs are made with
DefaultExperiment ==
    ShardExperiment([p \in 1..NAgents |-> UrlItem(p, FALSE)])

NotRendered == [kind |-> "none", who |-> 0, ok |-> FALSE, text |-> ""]

\* ------------------------------------------------------------------- Init
Init ==
    /\ py37 \in BOOLEAN
    /\ container_id = None
    /\ containers = [c \in ContainerIds |-> "absent"]
    /\ dockerLog = <<>>
    /\ stopCalls = 0
    /\ startOk = 0
    /\ startFault = FALSE
    /\ cpc = "new"
    /\ cwaiting = FALSE
    /\ cmust = FALSE
    /\ cerr = NoError
    /\ pendingErr = NoError
    /\ ncancel = 0
    /\ remaining = [a \in Agents |-> EmptyDict]
    /\ version_ctr = DefaultPlan
    /\ n_batches = NBatches
    /\ checkpoint \in [Agents -> {<<>>, CompleteCheckpoint}]
    /\ batch_ctr = [a \in Agents |-> EmptyCounter]
    /\ requests = [a \in Agents |-> <<>>]
    /\ pastRuns = [a \in Agents |-> <<>>]
    /\ apc = [a \in Agents |-> "unborn"]
    /\ procs = [a \in Agents |-> <<>>]
    /\ outcome = [a \in Agents |-> "none"]
    /\ awaiting = [a \in Agents |-> FALSE]
    /\ acancel = [a \in Agents |-> FALSE]
    /\ sawCancel = [a \in Agents |-> FALSE]
    /\ configPushed = [a \in Agents |-> 0]
    /\ firstErr = NoError
    /\ urlfile = [p \in 1..NAgents |-> UrlItem(p, FALSE)]
    /\ clients = DefaultExperiment.clients
    /\ wg = DefaultExperiment.wg
    /\ rendered = NotRendered
    /\ pushed = <<>>
    /\ returned = <<>>
    /\ mainpc = "run"
    /\ outfile = <<>>
    /\ unlinked = {}
    /\ onDisk = {a \in Agents : checkpoint[a] # <<>>}
    /\ g1 = [state |-> "none", nfinished |-> 0, exc |-> NoError, cancelReq |-> FALSE]
    /\ g2 = [state |-> "none", nfinished |-> 0, exc |-> NoError, cancelReq |-> FALSE]
    /\ ready = << <<"step", Coord, 0>> >>

\* ---------------------------------------------------------------- gateway
\* the next container id handed out by the docker daemon
FreshId == CHOOSE c \in ContainerIds :
              /\ containers[c] = "absent"
              /\ \A d \in ContainerIds : containers[d] = "absent" => c <= d

\* WireguardGateway.start(), up to the settle delay: push the config and
\* launch the container.  GwLaunchOk is FALSE when put_text or the launch
\* command raises.
GwLaunchOk(putFails, launchFails) == ~putFails /\ ~launchFails

GwLaunch(putFails, launchFails) ==
    IF putFails
    THEN UNCHANGED <<container_id, containers, dockerLog, pushed>>
    ELSE /\ pushed' = Append(pushed, GatewayToString(wg))
         /\ IF launchFails
            THEN /\ dockerLog' = Append(dockerLog, <<"start", None>>)
                 /\ UNCHANGED <<container_id, containers>>
            ELSE /\ container_id' = FreshId
                 /\ containers' = [containers EXCEPT ![FreshId] = "running"]
                 /\ dockerLog' = Append(dockerLog, <<"start", FreshId>>)

\* stdout of: docker container inspect --format "{{ .State.Running }}" id
InspectOutput(c) == IF containers[c] = "running" THEN "true\n" ELSE "false\n"

\* bool() of the value returned by the docker command: true iff the
\* captured output is not empty
Bool(out) == Len(out) > 0

\* WireguardGateway.start(), after the settle delay: the assert on the
\* running-state query.  FALSE when the query command itself fails or the
\* assertion does.
GwHealthOk(inspectFails) ==
    /\ ~inspectFails
    /\ container_id # None
    /\ containers[container_id] \in {"running", "exited"}
    /\ Bool(InspectOutput(container_id))

GwStopKeepsHandle ==
    /\ stopCalls' = stopCalls + 1
    /\ IF container_id # None
       THEN /\ dockerLog' = dockerLog \o << <<"stop", container_id>>,
                                            <<"rm", container_id>> >>
            /\ containers' = [containers EXCEPT ![container_id] = "removed"]
            /\ container_id' = container_id
       ELSE UNCHANGED <<container_id, containers, dockerLog>>

\* WireguardGateway.stop()
GwStop ==
    /\ stopCalls' = stopCalls + 1
    /\ IF container_id # None
       THEN /\ dockerLog' = dockerLog \o << <<"stop", container_id>>,
                                            <<"rm", container_id>> >>
            /\ containers' = [containers EXCEPT ![container_id] = "removed"]
            /\ container_id' = None
       ELSE UNCHANGED <<container_id, containers, dockerLog>>

\* the gateway container stops running on its own
ContainerExit(c) ==
    /\ containers[c] = "running"
    /\ containers' = [containers EXCEPT ![c] = "exited"]
    /\ UNCHANGED <<py37, cfvars, pushed, returned, mnvars, plvars, container_id, dockerLog, stopCalls, startOk,
                   startFault, covars, agvars, g1, g2, ready>>


\* ------------------------------------------------------------- event loop
Step(t) == <<"step", t, 0>>     \* Task.__step / Task.__wakeup of task t
Cb(g, a) == <<"cb", g, a>>      \* gather g's _done_callback for child a

AgentOrder == [a \in Agents |-> a]
StepsOf(S) ==
    LET sel == SelectSeq(AgentOrder, LAMBDA a : a \in S)
    IN  [i \in 1..Len(sel) |-> Step(sel[i])]
CbsOf(g, S) ==
    LET sel == SelectSeq(AgentOrder, LAMBDA a : a \in S)
    IN  [i \in 1..Len(sel) |-> Cb(g, sel[i])]

GatherDone(g) == g.state \in {"result", "exc"}

\* a timer of asyncio.sleep fires: the sleeping task becomes ready
TimerFire(t) ==
    /\ IF t = Coord
       THEN /\ cwaiting
            /\ cwaiting' = FALSE
            /\ UNCHANGED awaiting
       ELSE /\ awaiting[t]
            /\ awaiting' = [awaiting EXCEPT ![t] = FALSE]
            /\ UNCHANGED cwaiting
    /\ ready' = Append(ready, Step(t))
    /\ UNCHANGED <<py37, cfvars, pushed, returned, mnvars, plvars, gwvars, cpc, cmust, cerr, pendingErr, ncancel,
                   remaining, apc, procs, outcome, acancel, sawCancel,
                   configPushed, firstErr, g1, g2>>

\* ------------------------------------------------------------ BrowserPeer
Last(ps) == ps[Len(ps)]
IsAlive(ps) == ps # <<>> /\ Last(ps) = "alive"

\* the external collection process of the agent's current round exits
ProcExit(a, status) ==
    /\ IsAlive(procs[a])
    /\ procs' = [procs EXCEPT ![a][Len(procs[a])] = status]
    /\ UNCHANGED <<py37, cfvars, pushed, returned, mnvars, plvars, gwvars, covars, remaining, apc, outcome, awaiting,
                   acancel, sawCancel, configPushed, firstErr, g1, g2, ready>>

OpenTruncate(file) == <<>>

\* open(self.checkpoint_path, mode="a"): the file keeps its lines
OpenAppend(file) == file

\* callbacks scheduled when the task of agent a finishes
DoneCallbacks(a) ==
    (IF g1.state # "none" THEN <<Cb(1, a)>> ELSE <<>>)
    \o (IF g2.state # "none" THEN <<Cb(2, a)>> ELSE <<>>)

\* the task of agent a finishes with outcome o
Finish(a, o) ==
    /\ apc' = [apc EXCEPT ![a] = "done"]
    /\ outcome' = [outcome EXCEPT ![a] = o]
    /\ awaiting' = [awaiting EXCEPT ![a] = FALSE]
    /\ firstErr' = IF o = "err" /\ firstErr = NoError
                   THEN ErrorReturnCode(a) ELSE firstErr
    /\ ready' = Tail(ready) \o DoneCallbacks(a)

\* _collect_batch up to its first await: start the external process in the
\* background and sleep 2 seconds
Launch(a) ==
    /\ procs' = [procs EXCEPT ![a] = Append(procs[a], "alive")]
    /\ checkpoint' = [checkpoint EXCEPT ![a] = OpenAppend(@)]
    /\ onDisk' = onDisk \cup {a}
    /\ requests' = [requests EXCEPT ![a] =
                       Append(@, [req |-> batch_ctr'[a],
                                  at |-> Len(checkpoint'[a])])]
    /\ apc' = [apc EXCEPT ![a] = "sleep2"]
    /\ awaiting' = [awaiting EXCEPT ![a] = TRUE]
    /\ outcome' = outcome
    /\ firstErr' = firstErr
    /\ ready' = Tail(ready)

\* cleanup that leaves the process running
TerminatedNot(ps) == ps

\* process.terminate() if process.is_alive()
Terminated(ps) ==
    IF IsAlive(ps) THEN [ps EXCEPT ![Len(ps)] = "killed"] ELSE ps

NothingToDoNever(ctr) == FALSE

\* "if not batch_ctr": the batch has no version left
NothingToDo(ctr) == DOMAIN ctr = {}

\* first step of BrowserPeer.run: recover, plan the batch, push the config
\* and start round 1
AgentRun(a) ==
    /\ ready # <<>> /\ Head(ready) = Step(a)
    /\ apc[a] = "init" /\ ~acancel[a]
    /\ remaining' = [remaining EXCEPT ![a] = recover_from_checkpoint(a)]
    /\ batch_ctr' = [batch_ctr EXCEPT ![a] = batch(remaining'[a], n_batches)]
    /\ IF NothingToDo(batch_ctr'[a])
       THEN /\ Finish(a, "ok")
            /\ UNCHANGED <<procs, configPushed, requests, checkpoint, onDisk, wg>>
       ELSE /\ configPushed' = [configPushed EXCEPT ![a] = @ + 1]
            /\ wg' = GatewayAfterClientRender(wg, clients[a].wg_conf)
            /\ Launch(a)
    /\ UNCHANGED <<py37, urlfile, clients, rendered, pushed, returned, mnvars,
                   gwvars, covars, acancel, sawCancel, version_ctr, n_batches,
                   pastRuns, g1, g2>>

PollResultNoWait(ps) ==
    IF ps[Len(ps)] = "alive" THEN "complete"
    ELSE IF ps[Len(ps)] # "exit0" THEN "raise"
    ELSE "complete"

PollResultSwallow(ps) ==
    IF ps[Len(ps)] = "alive" THEN "sleep" ELSE "complete"

PollResult(ps) ==
    IF IsAlive(ps) THEN "sleep"
    ELSE IF Last(ps) # "exit0" THEN "raise"
    ELSE "complete"

MoreRoundsOneExtra(started, n) == started <= n

\* "for _ in range(self.n_batches)": another round follows
MoreRounds(started, n) == started < n

\* _collect_batch after a sleep, and the loop of run() around it
AgentPoll(a) ==
    /\ ready # <<>> /\ Head(ready) = Step(a)
    /\ apc[a] \in {"sleep2", "sleep30"} /\ ~acancel[a]
    /\ batch_ctr' = batch_ctr
    /\ IF PollResult(procs[a]) = "sleep"
       THEN /\ apc' = [apc EXCEPT ![a] = "sleep30"]
            /\ awaiting' = [awaiting EXCEPT ![a] = TRUE]
            /\ ready' = Tail(ready)
            /\ UNCHANGED <<procs, outcome, firstErr, requests, checkpoint, onDisk>>
       ELSE IF PollResult(procs[a]) = "raise"
       THEN /\ Finish(a, "err")
            /\ UNCHANGED <<procs, requests, checkpoint, onDisk>>
       ELSE IF MoreRounds(Len(procs[a]), n_batches)
       THEN Launch(a)
       ELSE /\ Finish(a, "ok")
            /\ UNCHANGED <<procs, requests, checkpoint, onDisk>>
    /\ UNCHANGED <<py37, cfvars, pushed, returned, mnvars, gwvars, covars,
                   remaining, acancel, sawCancel, configPushed, version_ctr,
                   n_batches, pastRuns, g1, g2>>

\* the task receives CancelledError at its suspension point: the except
\* block of _collect_batch terminates the process, waits for it with
\* ErrorReturnCode suppressed, and re-raises
AgentCancelled(a) ==
    /\ ready # <<>> /\ Head(ready) = Step(a)
    /\ apc[a] # "done" /\ acancel[a]
    /\ procs' = [procs EXCEPT ![a] = Terminated(procs[a])]
    /\ Finish(a, "cancelled")
    /\ acancel' = [acancel EXCEPT ![a] = FALSE]
    /\ sawCancel' = [sawCancel EXCEPT ![a] = TRUE]
    /\ UNCHANGED <<py37, cfvars, pushed, returned, mnvars, plvars, gwvars, covars, remaining, configPushed, g1, g2>>


\* ------------------------------------------- TraceCollectionExperiment.run
\* "except Exception" catches the error
IsException(e) == e # CancelledError \/ py37

\* Task.cancel() applied to every child that is not done: a sleeping child
\* is woken, and the child's next step receives CancelledError
Live == {a \in Agents : apc[a] \notin {"unborn", "done"}}

CancelChildren ==
    /\ acancel' = [a \in Agents |-> acancel[a] \/ a \in Live]
    /\ awaiting' = [a \in Agents |-> awaiting[a] /\ a \notin Live]

WokenByCancel == StepsOf({a \in Live : awaiting[a]})

\* _GatheringFuture.cancel(): FALSE and no effect when the future is done
GatherCancels(g) == ~GatherDone(g)

\* run(), first step: async with self.gateway -> start() up to its sleep
CoordStart ==
    /\ ready # <<>> /\ Head(ready) = Step(Coord)
    /\ cpc = "new"
    /\ \E putFails \in BOOLEAN, launchFails \in BOOLEAN :
        /\ GwLaunch(putFails, launchFails)
        /\ startFault' = (putFails \/ launchFails)
        /\ IF GwLaunchOk(putFails, launchFails)
           THEN /\ cpc' = "start_sleep"
                /\ cwaiting' = TRUE
                /\ cerr' = cerr
           ELSE /\ cpc' = "done"
                /\ cwaiting' = FALSE
                /\ cerr' = StartError
    /\ ready' = Tail(ready)
    /\ UNCHANGED <<py37, cfvars, returned, mnvars, plvars, stopCalls, startOk, cmust, pendingErr, ncancel,
                   agvars, g1, g2>>

BodyRunsAlways(entered) == TRUE

\* the body of "async with self.gateway" runs iff __aenter__ returned
BodyRuns(entered) == entered

\* run(), after the settle delay: the health check of start(), then the
\* agent tasks are created and gathered
CoordEnter ==
    /\ ready # <<>> /\ Head(ready) = Step(Coord)
    /\ cpc = "start_sleep"
    /\ IF cmust
       THEN /\ cpc' = "done"
            /\ cerr' = CancelledError
            /\ cmust' = FALSE
            /\ ready' = Tail(ready)
            /\ UNCHANGED <<dockerLog, startOk, startFault, apc, g1>>
       ELSE \E inspectFails \in BOOLEAN :
            /\ dockerLog' = Append(dockerLog, <<"inspect", container_id>>)
            /\ cmust' = cmust
            /\ startFault' = inspectFails
            /\ startOk' = IF GwHealthOk(inspectFails) THEN startOk + 1
                          ELSE startOk
            /\ IF BodyRuns(GwHealthOk(inspectFails))
               THEN /\ apc' = [a \in Agents |-> "init"]
                    /\ g1' = [g1 EXCEPT !.state = "pending"]
                    /\ cpc' = "gather1"
                    /\ cerr' = cerr
                    /\ ready' = Tail(ready) \o StepsOf(Agents)
               ELSE /\ cpc' = "done"
                    /\ cerr' = StartError
                    /\ ready' = Tail(ready)
                    /\ UNCHANGED <<apc, g1>>
    /\ UNCHANGED <<py37, cfvars, pushed, returned, mnvars, plvars, container_id, containers, stopCalls, cwaiting,
                   pendingErr, ncancel, remaining, procs, outcome, awaiting,
                   acancel, sawCancel, configPushed, firstErr, g2>>

AnyFinished(n) == n >= 1

\* gather sets its result when every child has finished
AllFinished(n) == n = NAgents

\* _done_callback of gather(*tasks) for child a
GatherCb1(a) ==
    /\ ready # <<>> /\ Head(ready) = Cb(1, a)
    /\ LET n == g1.nfinished + 1
           fin == IF GatherDone(g1) THEN g1
                  ELSE IF outcome[a] = "cancelled"
                  THEN [g1 EXCEPT !.state = "exc", !.exc = CancelledError]
                  ELSE IF outcome[a] = "err"
                  THEN [g1 EXCEPT !.state = "exc", !.exc = ErrorReturnCode(a)]
                  ELSE IF AllFinished(n)
                  THEN IF g1.cancelReq
                       THEN [g1 EXCEPT !.state = "exc", !.exc = CancelledError]
                       ELSE [g1 EXCEPT !.state = "result"]
                  ELSE g1
       IN /\ g1' = [fin EXCEPT !.nfinished = n]
          /\ ready' = IF ~GatherDone(g1) /\ GatherDone(fin)
                      THEN Append(Tail(ready), Step(Coord))
                      ELSE Tail(ready)
    /\ UNCHANGED <<py37, cfvars, pushed, returned, mnvars, plvars, gwvars, covars, agvars, g2>>

\* _done_callback of gather(*tasks, return_exceptions=True) for child a
GatherCb2(a) ==
    /\ ready # <<>> /\ Head(ready) = Cb(2, a)
    /\ LET n == g2.nfinished + 1
           fin == IF GatherDone(g2) \/ ~AllFinished(n) THEN g2
                  ELSE IF g2.cancelReq
                  THEN [g2 EXCEPT !.state = "exc", !.exc = CancelledError]
                  ELSE [g2 EXCEPT !.state = "result"]
       IN /\ g2' = [fin EXCEPT !.nfinished = n]
          /\ ready' = IF ~GatherDone(g2) /\ GatherDone(fin)
                      THEN Append(Tail(ready), Step(Coord))
                      ELSE Tail(ready)
    /\ UNCHANGED <<py37, cfvars, pushed, returned, mnvars, plvars, gwvars, covars, agvars, g1>>

\* Task.result() of the task of agent a: the value run() returned
TaskResult(a) ==
    IF outcome[a] = "ok" THEN clients[a].checkpoint_path ELSE "None"

GatherResultsFirstGiven ==
    [i \in 1..NAgents |-> TaskResult(1)]

\* the result of gather(*tasks): the results of the tasks in the order
\* the tasks were given
GatherResults == [a \in 1..NAgents |-> TaskResult(a)]

\* str(checkpoint) of a path
Str(path) == path

AExitNoStop == UNCHANGED <<container_id, containers, dockerLog, stopCalls>>

\* WireguardGateway.__aexit__
AExit == GwStop

\* run() wakes from "await gathered_tasks"
CoordGathered ==
    /\ ready # <<>> /\ Head(ready) = Step(Coord)
    /\ cpc = "gather1"
    /\ LET exc == IF cmust THEN CancelledError ELSE g1.exc IN
       IF exc = NoError
       THEN \* all agents returned: leave the with block and return
            /\ AExit
            /\ cpc' = "done"
            /\ returned' = <<[i \in 1..Len(GatherResults) |->
                                 Str(GatherResults[i])]>>
            /\ ready' = Tail(ready)
            /\ UNCHANGED <<cerr, pendingErr, acancel, awaiting, g2>>
       ELSE IF IsException(exc)
       THEN \* except Exception: gathered_tasks.cancel(), then the second gather
            /\ IF GatherCancels(g1)
               THEN /\ CancelChildren
                    /\ ready' = Tail(ready) \o WokenByCancel
                                 \o CbsOf(2, Agents \ Live)
               ELSE /\ UNCHANGED <<acancel, awaiting>>
                    /\ ready' = Tail(ready) \o CbsOf(2, Agents \ Live)
            /\ g2' = [g2 EXCEPT !.state = "pending"]
            /\ pendingErr' = exc
            /\ cpc' = "gather2"
            /\ UNCHANGED <<container_id, containers, dockerLog, stopCalls,
                           cerr, returned>>
       ELSE \* CancelledError passes the except clause; __aexit__ runs
            /\ AExit
            /\ cpc' = "done"
            /\ cerr' = exc
            /\ ready' = Tail(ready)
            /\ UNCHANGED <<pendingErr, acancel, awaiting, g2, returned>>
    /\ cmust' = FALSE
    /\ UNCHANGED <<py37, cfvars, pushed, mnvars, plvars, startOk, startFault, cwaiting, ncancel, remaining,
                   apc, procs, outcome, sawCancel, configPushed, firstErr, g1>>

\* run() wakes from the second gather inside the except block: re-raise
CoordCleanedUp ==
    /\ ready # <<>> /\ Head(ready) = Step(Coord)
    /\ cpc = "gather2"
    /\ LET exc == IF cmust THEN CancelledError ELSE g2.exc IN
       cerr' = IF exc = NoError THEN pendingErr ELSE exc
    /\ AExit
    /\ cpc' = "done"
    /\ cmust' = FALSE
    /\ ready' = Tail(ready)
    /\ UNCHANGED <<py37, cfvars, pushed, returned, mnvars, plvars, startOk, startFault, cwaiting, pendingErr, ncancel,
                   agvars, g1, g2>>

\* Task.cancel() is called on the coordinator task while it is suspended
CancelCoord ==
    /\ ncancel < MaxCancels
    /\ ncancel' = ncancel + 1
    /\ cpc \in {"start_sleep", "gather1", "gather2"}
    /\ IF cpc = "start_sleep"
       THEN /\ cmust' = TRUE
            /\ cwaiting' = FALSE
            /\ ready' = IF cwaiting THEN Append(ready, Step(Coord)) ELSE ready
            /\ UNCHANGED <<acancel, awaiting, g1, g2>>
       ELSE LET g == IF cpc = "gather1" THEN g1 ELSE g2 IN
            IF GatherCancels(g) /\ Live # {}
            THEN /\ CancelChildren
                 /\ ready' = ready \o WokenByCancel
                 /\ IF cpc = "gather1"
                    THEN g1' = [g1 EXCEPT !.cancelReq = TRUE] /\ g2' = g2
                    ELSE g2' = [g2 EXCEPT !.cancelReq = TRUE] /\ g1' = g1
                 /\ UNCHANGED <<cmust, cwaiting>>
            ELSE /\ cmust' = TRUE
                 /\ UNCHANGED <<acancel, awaiting, g1, g2, ready, cwaiting>>
    /\ UNCHANGED <<py37, cfvars, pushed, returned, mnvars, plvars, gwvars, cpc, cerr, pendingErr, remaining, apc,
                   procs, outcome, sawCancel, configPushed, firstErr>>

\* ------------------------------------------------------------------ main
\* "checkpoint_filenames = await experiment.run()" has returned a value
RunSucceeded(pc, err) == pc = "done" /\ err = NoError

RECURSIVE CatFiles(_)
CatFiles(as) ==
    IF Len(as) = 0 THEN <<>> ELSE checkpoint[as[1]] \o CatFiles(Tail(as))

\* the agents whose checkpoint files the list names, in the list's order
FilesNamed(names) ==
    [i \in 1..Len(names) |->
        CHOOSE a \in Agents : clients[a].checkpoint_path = names[i]]

\* every name of the list is the checkpoint file of an agent
AllNamed(names) ==
    \A i \in 1..Len(names) :
        \E a \in Agents : clients[a].checkpoint_path = names[i]

\* every file of the list exists
AllExist(names) ==
    \A i \in 1..Len(names) : FilesNamed(names)[i] \in onDisk

\* sh.cat(checkpoint_filenames, _out=outfile); raises when cat fails, as
\* it does when a file it is given does not exist
MainCat ==
    /\ mainpc = "run"
    /\ RunSucceeded(cpc, cerr)
    /\ \E catFails \in BOOLEAN :
         IF catFails \/ returned = <<>> \/ ~AllNamed(returned[1])
            \/ ~AllExist(returned[1])
         THEN mainpc' = "failed" /\ outfile' = outfile
         ELSE /\ mainpc' = "clear"
              /\ outfile' = CatFiles(FilesNamed(returned[1]))
    /\ UNCHANGED <<py37, cfvars, pushed, returned, unlinked, gwvars, covars,
                   agvars, plvars, g1, g2, ready>>

\* experiment.clear_checkpoint(): every client's checkpoint file is removed
MainClear ==
    /\ mainpc = "clear"
    /\ unlinked' = Agents
    /\ checkpoint' = [a \in Agents |-> <<>>]
    /\ onDisk' = onDisk \ Agents
    /\ mainpc' = "done"
    /\ UNCHANGED <<py37, cfvars, pushed, returned, outfile, gwvars, covars,
                   agvars, version_ctr, n_batches, batch_ctr, requests,
                   pastRuns, g1, g2, ready>>

MainAfterRaiseClears == "clear"

\* where main() is after "await experiment.run()" raised: out of main()
MainAfterRaise == "failed"

\* experiment.run() raised: main() raises and the script exits non-zero
MainRaises ==
    /\ mainpc = "run"
    /\ cpc = "done" /\ cerr # NoError
    /\ mainpc' = MainAfterRaise
    /\ UNCHANGED <<py37, cfvars, pushed, returned, outfile, unlinked, gwvars,
                   covars, agvars, plvars, g1, g2, ready>>

\* ------------------------------------------------------------------- Spec
Next ==
    \/ MainCat
    \/ MainClear
    \/ MainRaises
    \/ CoordStart
    \/ CoordEnter
    \/ CoordGathered
    \/ CoordCleanedUp
    \/ CancelCoord
    \/ \E t \in {Coord} \cup Agents : TimerFire(t)
    \/ \E a \in Agents : AgentRun(a)
    \/ \E a \in Agents : AgentPoll(a)
    \/ \E a \in Agents : AgentCancelled(a)
    \/ \E a \in Agents, st \in {"exit0", "exitErr"} : ProcExit(a, st)
    \/ \E a \in Agents : GatherCb1(a)
    \/ \E a \in Agents : GatherCb2(a)
    \/ \E c \in ContainerIds : ContainerExit(c)

Spec == Init /\ [][Next]_vars


\* ------------------------------------------------------------- fairness
\* the event loop runs the callback at the head of its ready queue
LoopStep ==
    \/ CoordStart
    \/ CoordEnter
    \/ CoordGathered
    \/ CoordCleanedUp
    \/ \E a \in Agents : AgentRun(a)
    \/ \E a \in Agents : AgentPoll(a)
    \/ \E a \in Agents : AgentCancelled(a)
    \/ \E a \in Agents : GatherCb1(a)
    \/ \E a \in Agents : GatherCb2(a)

\* the loop keeps running, timers fire, and every external process exits
Fairness ==
    /\ WF_vars(LoopStep)
    /\ \A t \in {Coord} \cup Agents : WF_vars(TimerFire(t))
    /\ \A a \in Agents : WF_vars(\E st \in {"exit0", "exitErr"} : ProcExit(a, st))

SpecLive == Init /\ [][Next]_vars /\ Fairness

\* ------------------------------------------------- gateway lifecycle alone
\* start() and stop() of one WireguardGateway called in any order by a
\* sequential caller, as a scoped resource may be used outside run()
Count(cmd) == Len(SelectSeq(dockerLog, LAMBDA e : e[1] = cmd))

GwCallStart ==
    /\ cpc = "new"
    /\ Count("start") < MaxStarts
    /\ \E putFails \in BOOLEAN, launchFails \in BOOLEAN :
        /\ GwLaunch(putFails, launchFails)
        /\ startFault' = (putFails \/ launchFails)
        /\ cpc' = IF GwLaunchOk(putFails, launchFails) THEN "settle" ELSE "new"
    /\ UNCHANGED <<py37, cfvars, returned, mnvars, plvars, stopCalls, startOk, cwaiting, cmust, cerr,
                   pendingErr, ncancel, agvars, g1, g2, ready>>

GwStartReturns ==
    /\ cpc = "settle"
    /\ \E inspectFails \in BOOLEAN :
        /\ dockerLog' = Append(dockerLog, <<"inspect", container_id>>)
        /\ startFault' = inspectFails
        /\ startOk' = IF GwHealthOk(inspectFails) THEN startOk + 1 ELSE startOk
    /\ cpc' = "new"
    /\ UNCHANGED <<py37, cfvars, pushed, returned, mnvars, plvars, container_id, containers, stopCalls, cwaiting, cmust,
                   cerr, pendingErr, ncancel, agvars, g1, g2, ready>>

GwCallStop ==
    /\ cpc = "new"
    /\ stopCalls < MaxStops
    /\ GwStop
    /\ UNCHANGED <<py37, cfvars, pushed, returned, mnvars, plvars, startOk, startFault, covars, agvars, g1, g2, ready>>

NextGw ==
    \/ GwCallStart
    \/ GwStartReturns
    \/ GwCallStop
    \/ \E c \in ContainerIds : ContainerExit(c)

SpecGw == Init /\ [][NextGw]_vars

\* ------------------------------------------------------ one agent alone
\* BrowserPeer.run of one agent as the only task of the loop, with the lines
\* its collection processes write, and run again on the same checkpoint
\* file after it has finished.  (Next leaves ProcWrite out: no step of
\* run() reads the checkpoint after _recover_from_checkpoint.)
TheAgent == 1
PlanSet == {[k \in {"h3"} |-> 1], [k \in {"h3"} |-> 2]}

InitAgent ==
    /\ py37 = FALSE
    /\ container_id = None
    /\ containers = [c \in ContainerIds |-> "absent"]
    /\ dockerLog = <<>>
    /\ stopCalls = 0
    /\ startOk = 0
    /\ startFault = FALSE
    /\ cpc = "agent"
    /\ cwaiting = FALSE
    /\ cmust = FALSE
    /\ cerr = NoError
    /\ pendingErr = NoError
    /\ ncancel = 0
    /\ remaining = [a \in Agents |-> EmptyDict]
    /\ version_ctr \in PlanSet
    /\ n_batches \in 1..MaxN
    /\ checkpoint = [a \in Agents |-> <<>>]
    /\ batch_ctr = [a \in Agents |-> EmptyCounter]
    /\ requests = [a \in Agents |-> <<>>]
    /\ pastRuns = [a \in Agents |-> <<>>]
    /\ apc = [a \in Agents |-> IF a = TheAgent THEN "init" ELSE "unborn"]
    /\ procs = [a \in Agents |-> <<>>]
    /\ outcome = [a \in Agents |-> "none"]
    /\ awaiting = [a \in Agents |-> FALSE]
    /\ acancel = [a \in Agents |-> FALSE]
    /\ sawCancel = [a \in Agents |-> FALSE]
    /\ configPushed = [a \in Agents |-> 0]
    /\ firstErr = NoError
    /\ \E n \in {0, NAgents} : urlfile = [p \in 1..n |-> UrlItem(p, FALSE)]
    /\ clients = ShardExperiment(urlfile).clients
    /\ wg = ShardExperiment(urlfile).wg
    /\ rendered = NotRendered
    /\ pushed = <<>>
    /\ returned = <<>>
    /\ mainpc = "run"
    /\ outfile = <<>>
    /\ unlinked = {}
    /\ onDisk = {a \in Agents : checkpoint[a] # <<>>}
    /\ g1 = [state |-> "none", nfinished |-> 0, exc |-> NoError, cancelReq |-> FALSE]
    /\ g2 = [state |-> "none", nfinished |-> 0, exc |-> NoError, cancelReq |-> FALSE]
    /\ ready = <<Step(TheAgent)>>

\* the lines the process of the current round has written so far
WrittenThisRound(a) ==
    SubSeq(checkpoint[a], Last(requests[a]).at + 1, Len(checkpoint[a]))

\* the running process appends one outcome to the checkpoint file (_out):
\* for a url it was given and a version of its --version-ctr, no more
\* successes than asked and no more than max_attempts failures in a row
ProcWrite(a, o) ==
    /\ IsAlive(procs[a])
    /\ Len(checkpoint[a]) < MaxLines
    /\ o.url \in DOMAIN remaining[a]
    /\ o.version \in DOMAIN Last(requests[a]).req
    /\ IF o.ok
       THEN Successes(WrittenThisRound(a), o.url, o.version)
                < Last(requests[a]).req[o.version]
       ELSE TrailingFailures(OutcomesOf(WrittenThisRound(a), o.url, o.version))
                < MaxAttempts
    /\ checkpoint' = [checkpoint EXCEPT ![a] = Append(@, o)]
    /\ UNCHANGED <<onDisk, py37, cfvars, pushed, returned, mnvars, gwvars, covars, agvars, version_ctr, n_batches,
                   batch_ctr, requests, pastRuns, g1, g2, ready>>

\* Task.cancel() on the agent's task
CancelAgent(a) ==
    /\ ncancel < MaxCancels
    /\ ncancel' = ncancel + 1
    /\ apc[a] \notin {"unborn", "done"}
    /\ acancel' = [acancel EXCEPT ![a] = TRUE]
    /\ awaiting' = [awaiting EXCEPT ![a] = FALSE]
    /\ ready' = IF awaiting[a] THEN Append(ready, Step(a)) ELSE ready
    /\ UNCHANGED <<py37, cfvars, pushed, returned, mnvars, plvars, gwvars, cpc, cwaiting, cmust, cerr,
                   pendingErr, remaining, apc, procs, outcome, sawCancel,
                   configPushed, firstErr, g1, g2>>

\* the script is run again: a new BrowserPeer on the same checkpoint file
Restart(a) ==
    /\ apc[a] = "done"
    /\ Len(pastRuns[a]) + 1 < MaxRuns
    /\ pastRuns' = [pastRuns EXCEPT ![a] = Append(@, outcome[a])]
    /\ apc' = [apc EXCEPT ![a] = "init"]
    /\ outcome' = [outcome EXCEPT ![a] = "none"]
    /\ procs' = [procs EXCEPT ![a] = <<>>]
    /\ requests' = [requests EXCEPT ![a] = <<>>]
    /\ remaining' = [remaining EXCEPT ![a] = EmptyDict]
    /\ batch_ctr' = [batch_ctr EXCEPT ![a] = EmptyCounter]
    /\ configPushed' = [configPushed EXCEPT ![a] = 0]
    /\ sawCancel' = [sawCancel EXCEPT ![a] = FALSE]
    /\ firstErr' = NoError
    /\ ready' = Append(ready, Step(a))
    /\ UNCHANGED <<py37, cfvars, pushed, returned, mnvars, gwvars, covars, awaiting, acancel, version_ctr,
                   n_batches, checkpoint, onDisk, g1, g2>>

NextAgent ==
    \/ AgentRun(TheAgent)
    \/ AgentPoll(TheAgent)
    \/ AgentCancelled(TheAgent)
    \/ TimerFire(TheAgent)
    \/ \E st \in {"exit0", "exitErr"} : ProcExit(TheAgent, st)
    \/ \E o \in Outcomes : ProcWrite(TheAgent, o)
    \/ CancelAgent(TheAgent)
    \/ Restart(TheAgent)

SpecAgent == InitAgent /\ [][NextAgent]_vars

\* ------------------------------------------------------ the planner alone
\* batch() applied to any dictionary of counters with counts -1..MaxCount,
\* keys possibly missing, and any n_batches in 1..MaxDiv
MaxDiv == 4
Counters ==
    UNION {[K -> -1..MaxCount] : K \in SUBSET Versions}
Dicts ==
    UNION {[U -> Counters] : U \in SUBSET Urls}

InitBatch ==
    /\ py37 = FALSE
    /\ container_id = None
    /\ containers = [c \in ContainerIds |-> "absent"]
    /\ dockerLog = <<>>
    /\ stopCalls = 0
    /\ startOk = 0
    /\ startFault = FALSE
    /\ cpc = "plan"
    /\ cwaiting = FALSE
    /\ cmust = FALSE
    /\ cerr = NoError
    /\ pendingErr = NoError
    /\ ncancel = 0
    /\ \E d \in Dicts :
         remaining = [a \in Agents |-> IF a = TheAgent THEN d ELSE EmptyDict]
    /\ version_ctr = DefaultPlan
    /\ n_batches \in 1..MaxDiv
    /\ checkpoint = [a \in Agents |-> <<>>]
    /\ batch_ctr = [a \in Agents |-> EmptyCounter]
    /\ requests = [a \in Agents |-> <<>>]
    /\ pastRuns = [a \in Agents |-> <<>>]
    /\ apc = [a \in Agents |-> "unborn"]
    /\ procs = [a \in Agents |-> <<>>]
    /\ outcome = [a \in Agents |-> "none"]
    /\ awaiting = [a \in Agents |-> FALSE]
    /\ acancel = [a \in Agents |-> FALSE]
    /\ sawCancel = [a \in Agents |-> FALSE]
    /\ configPushed = [a \in Agents |-> 0]
    /\ firstErr = NoError
    /\ urlfile = [p \in 1..NAgents |-> UrlItem(p, FALSE)]
    /\ clients = DefaultExperiment.clients
    /\ wg = DefaultExperiment.wg
    /\ rendered = NotRendered
    /\ pushed = <<>>
    /\ returned = <<>>
    /\ mainpc = "run"
    /\ outfile = <<>>
    /\ unlinked = {}
    /\ onDisk = {a \in Agents : checkpoint[a] # <<>>}
    /\ g1 = [state |-> "none", nfinished |-> 0, exc |-> NoError, cancelReq |-> FALSE]
    /\ g2 = [state |-> "none", nfinished |-> 0, exc |-> NoError, cancelReq |-> FALSE]
    /\ ready = <<>>

\* batch_ctr = batch(remaining, self.n_batches)
PlanBatch ==
    /\ cpc = "plan"
    /\ cpc' = "planned"
    /\ batch_ctr' = [batch_ctr EXCEPT ![TheAgent] =
                        batch(remaining[TheAgent], n_batches)]
    /\ UNCHANGED <<py37, cfvars, pushed, returned, mnvars, gwvars, cwaiting, cmust, cerr, pendingErr, ncancel,
                   agvars, version_ctr, n_batches, checkpoint, onDisk, requests,
                   pastRuns, g1, g2, ready>>

NextBatch == PlanBatch

SpecBatch == InitBatch /\ [][NextBatch]_vars

\* the dictionaries of test_batch, test_batch_min_count and test_batch_empty
TestCounters ==
    [u \in {"a.com", "b.com", "c.com"} |->
        IF u = "a.com" THEN [k \in {"Q043", "Q046", "tcp"} |->
              IF k = "Q043" THEN 40 ELSE IF k = "Q046" THEN 10 ELSE 100]
        ELSE IF u = "b.com" THEN [k \in {"Q043", "Q046", "tcp"} |->
              IF k = "Q043" THEN 30 ELSE IF k = "Q046" THEN 40 ELSE 110]
        ELSE [k \in {"Q043", "Q046", "tcp"} |->
              IF k = "Q043" THEN 20 ELSE IF k = "Q046" THEN 30 ELSE 90]]
TestMinCount ==
    [u \in {"a.com"} |-> [k \in {"Q043", "Q046", "tcp"} |->
              IF k = "Q043" THEN 5 ELSE IF k = "Q046" THEN 3 ELSE 1]]
TestEmpty ==
    [u \in {"a.com", "b.com"} |-> [k \in {"Q043", "Q046", "tcp"} |-> 0]]
Triple(x, y, z) ==
    [k \in {"Q043", "Q046", "tcp"} |->
              IF k = "Q043" THEN x ELSE IF k = "Q046" THEN y ELSE z]

\* ----------------------------------------------------- construction
\* An experiment is constructed from a url list, a list of client nodes
\* and a gateway endpoint.
UrlLists ==
    UNION {{[p \in 1..n |-> UrlItem(p, ports[p])] : ports \in [1..n -> BOOLEAN]}
           : n \in 0..MaxUrls}

\* the client nodes main() passes: the nodes given, or one node n times
NodeLists ==
    UNION {{[n \in 1..k |-> "localhost"], [n \in 1..k |-> "node" \o ToString(n)]}
           : k \in 1..MaxNodes}

InitSetup ==
    /\ py37 = FALSE
    /\ container_id = None
    /\ containers = [c \in ContainerIds |-> "absent"]
    /\ dockerLog = <<>>
    /\ stopCalls = 0
    /\ startOk = 0
    /\ startFault = FALSE
    /\ cpc = "setup"
    /\ cwaiting = FALSE
    /\ cmust = FALSE
    /\ cerr = NoError
    /\ pendingErr = NoError
    /\ ncancel = 0
    /\ remaining = [a \in Agents |-> EmptyDict]
    /\ version_ctr = DefaultPlan
    /\ n_batches = NBatches
    /\ checkpoint = [a \in Agents |-> <<>>]
    /\ batch_ctr = [a \in Agents |-> EmptyCounter]
    /\ requests = [a \in Agents |-> <<>>]
    /\ pastRuns = [a \in Agents |-> <<>>]
    /\ apc = [a \in Agents |-> "unborn"]
    /\ procs = [a \in Agents |-> <<>>]
    /\ outcome = [a \in Agents |-> "none"]
    /\ awaiting = [a \in Agents |-> FALSE]
    /\ acancel = [a \in Agents |-> FALSE]
    /\ sawCancel = [a \in Agents |-> FALSE]
    /\ configPushed = [a \in Agents |-> 0]
    /\ firstErr = NoError
    /\ urlfile \in UrlLists
    /\ clients = <<>>
    /\ \E e \in {"", "localhost"} : wg = GatewayConfig(e, "privkey", "pubkey")
    /\ rendered = NotRendered
    /\ pushed = <<>>
    /\ returned = <<>>
    /\ mainpc = "run"
    /\ outfile = <<>>
    /\ unlinked = {}
    /\ onDisk = {a \in Agents : checkpoint[a] # <<>>}
    /\ g1 = [state |-> "none", nfinished |-> 0, exc |-> NoError, cancelReq |-> FALSE]
    /\ g2 = [state |-> "none", nfinished |-> 0, exc |-> NoError, cancelReq |-> FALSE]
    /\ ready = <<>>

\* TraceCollectionExperiment(gateway_node, client_nodes, urls, ...)
NewExperiment(nodes, gwkey) ==
    /\ cpc = "setup"
    /\ cpc' = "built"
    /\ LET e == Experiment(urlfile, nodes, wg.endpoint, gwkey)
       IN  clients' = e.clients /\ wg' = e.wg
    /\ UNCHANGED <<py37, urlfile, rendered, pushed, returned, mnvars, gwvars,
                   cwaiting, cmust, cerr, pendingErr, ncancel, agvars, plvars,
                   g1, g2, ready>>

NextSetup ==
    \E nodes \in NodeLists, gwkey \in {"", "gw_"} : NewExperiment(nodes, gwkey)

SpecSetup == InitSetup /\ [][NextSetup]_vars

\* -------------------------------------------------------- rendering
\* A GatewayConfig and some ClientConfigs are made as test_wireguard.py
\* makes them; clients are set on the gateway in any order, any number of
\* times, and the configs are rendered.
\* the lists without repetition of clients out of k
Orders(k) ==
    {o \in UNION {[1..m -> 1..k] : m \in 0..k} :
        \A i, j \in DOMAIN o : i # j => o[i] # o[j]}

\* the configs of test_wireguard.py
TestGateway == GatewayConfig("localhost", "privkey", "pubkey")
TestClient(n) ==
    ClientConfig("10.0.0." \o ToString(n + 1), ClientKey(n, "privkey"),
                 ClientKey(n, "pubkey"))

InitRender ==
    /\ py37 = FALSE
    /\ container_id = None
    /\ containers = [c \in ContainerIds |-> "absent"]
    /\ dockerLog = <<>>
    /\ stopCalls = 0
    /\ startOk = 0
    /\ startFault = FALSE
    /\ cpc = "render"
    /\ cwaiting = FALSE
    /\ cmust = FALSE
    /\ cerr = NoError
    /\ pendingErr = NoError
    /\ ncancel = 0
    /\ remaining = [a \in Agents |-> EmptyDict]
    /\ version_ctr = DefaultPlan
    /\ n_batches = NBatches
    /\ checkpoint = [a \in Agents |-> <<>>]
    /\ batch_ctr = [a \in Agents |-> EmptyCounter]
    /\ requests = [a \in Agents |-> <<>>]
    /\ pastRuns = [a \in Agents |-> <<>>]
    /\ apc = [a \in Agents |-> "unborn"]
    /\ procs = [a \in Agents |-> <<>>]
    /\ outcome = [a \in Agents |-> "none"]
    /\ awaiting = [a \in Agents |-> FALSE]
    /\ acancel = [a \in Agents |-> FALSE]
    /\ sawCancel = [a \in Agents |-> FALSE]
    /\ configPushed = [a \in Agents |-> 0]
    /\ firstErr = NoError
    /\ urlfile = <<>>
    /\ \E k \in 0..MaxPeers :
         clients = [n \in 1..k |->
                      BrowserPeer(TestClient(n), <<>>, CheckpointDir, "localhost")]
    /\ \E e \in {"", "localhost"}, gwkey \in {"", "gw_"} :
         wg = GatewayConfig(e, gwkey \o "privkey", gwkey \o "pubkey")
    /\ rendered = NotRendered
    /\ pushed = <<>>
    /\ returned = <<>>
    /\ mainpc = "run"
    /\ outfile = <<>>
    /\ unlinked = {}
    /\ onDisk = {a \in Agents : checkpoint[a] # <<>>}
    /\ g1 = [state |-> "none", nfinished |-> 0, exc |-> NoError, cancelReq |-> FALSE]
    /\ g2 = [state |-> "none", nfinished |-> 0, exc |-> NoError, cancelReq |-> FALSE]
    /\ ready = <<>>

\* config.set_clients([...]): the clients named get the gateway as their
\* back-reference; clients set before keep theirs
SetClients(order) ==
    /\ cpc = "render"
    /\ wg' = set_clients(wg, [i \in 1..Len(order) |-> clients[order[i]].wg_conf])
    /\ clients' = [n \in 1..Len(clients) |->
                     [clients[n] EXCEPT !.wg_conf.gateway =
                         clients[n].wg_conf.gateway
                         \/ \E i \in 1..Len(wg'.clients) :
                               wg'.clients[i].address
                                   = clients[n].wg_conf.address]]
    /\ rendered' = NotRendered
    /\ UNCHANGED <<py37, urlfile, pushed, returned, mnvars, gwvars,
                   covars, agvars, plvars, g1, g2, ready>>

\* config.to_string() of the gateway config
RenderGateway ==
    /\ cpc = "render"
    /\ rendered' = [kind |-> "gateway", who |-> 0, ok |-> TRUE,
                    text |-> GatewayToString(wg)]
    /\ UNCHANGED <<py37, urlfile, clients, wg, pushed, returned, mnvars,
                   gwvars, covars, agvars, plvars, g1, g2, ready>>

\* to_string() of the config of client n; the assert fails for a client
\* without a gateway or whose gateway has no endpoint
RenderClient(n) ==
    /\ cpc = "render"
    /\ n \in 1..Len(clients)
    /\ rendered' =
          IF ClientRenderable(clients[n].wg_conf, wg)
          THEN [kind |-> "client", who |-> n, ok |-> TRUE,
                text |-> ClientToString(clients[n].wg_conf, wg)]
          ELSE [kind |-> "client", who |-> n, ok |-> FALSE, text |-> ""]
    /\ UNCHANGED <<py37, urlfile, clients, wg, pushed, returned, mnvars,
                   gwvars, covars, agvars, plvars, g1, g2, ready>>

NextRender ==
    \/ \E o \in Orders(Len(clients)) : SetClients(o)
    \/ RenderGateway
    \/ \E n \in 1..MaxPeers : RenderClient(n)

SpecRender == InitRender /\ [][NextRender]_vars

\* ------------------------------------------------------------ type sanity
TypeOK ==
    /\ container_id \in {None} \cup ContainerIds
    /\ stopCalls \in Nat /\ startOk \in Nat
    /\ cpc \in {"new", "start_sleep", "gather1", "gather2", "done", "settle"}
    /\ \A a \in Agents :
        /\ apc[a] \in {"unborn", "init", "sleep2", "sleep30", "done"}
        /\ outcome[a] \in {"none", "ok", "err", "cancelled"}
        /\ Len(procs[a]) <= n_batches
        /\ (apc[a] = "done") = (outcome[a] # "none")
        /\ awaiting[a] => apc[a] \in {"sleep2", "sleep30"}

\* the loop runs dry only when run() has finished
Quiescent == (~ENABLED Next) => (cpc = "done" /\ ready = <<>>)


\* ----------------------------------------------------------------- claims
AllDone == \A a \in Agents : apc[a] = "done"
AgentError(e) == \E a \in Agents : e = ErrorReturnCode(a)

\* C1: when run() handles the error of one agent, every other agent that is
\* still in flight has been cancelled (it is done, or its next step receives
\* CancelledError) instead of running its remaining rounds.
C1_SiblingsCancelled ==
    (cpc = "gather2" /\ AgentError(pendingErr))
        => \A b \in Agents : apc[b] = "done" \/ acancel[b]

C3_StopExactlyOnce ==
    /\ stopCalls <= startOk
    /\ (cpc = "done" /\ startOk = 1) => stopCalls = 1

C3_Witness ==
    /\ cpc = "done" /\ startOk = 1 /\ stopCalls = 1
    /\ AgentError(cerr)

\* C4: a stop() call with no container held issues no command and changes
\* nothing; with a container held it issues stop then rm for that container
\* and clears the handle.
C4_StopIdempotent ==
    [][stopCalls' = stopCalls + 1 =>
          IF container_id = None
          THEN UNCHANGED <<container_id, containers, dockerLog>>
          ELSE /\ dockerLog' = dockerLog \o << <<"stop", container_id>>,
                                               <<"rm", container_id>> >>
               /\ container_id' = None]_vars

C4_Witness ==
    /\ stopCalls = 3 /\ container_id = None
    /\ Count("start") = 1 /\ Count("stop") = 1 /\ Count("rm") = 1
    /\ dockerLog[Len(dockerLog)][1] = "rm"

\* C5: when the running-state query made after the settle delay reports a
\* container that is not running, start() does not return.
C5_FailsFastWhenNotRunning ==
    [][(cpc \in {"start_sleep", "settle"} /\ cpc' # cpc /\ ~cmust
          /\ containers[container_id] # "running")
        => startOk' = startOk]_vars

\* C6: when a command of start() fails no agent task exists, no client
\* config is pushed, no collection process is started, and run() raises the
\* start failure.
C6_NoAgentAfterFailedStart ==
    startFault =>
        /\ \A a \in Agents : /\ apc[a] = "unborn"
                             /\ procs[a] = <<>>
                             /\ configPushed[a] = 0
        /\ cpc = "done" /\ cerr = StartError

C6_Witness ==
    /\ startFault /\ cpc = "done" /\ container_id # None
    /\ dockerLog[Len(dockerLog)][1] = "inspect"

\* C7: an external collection process exists only after start() returned.
C7_StartBeforeAnyBatch ==
    \A a \in Agents : procs[a] # <<>> => (startOk = 1 /\ ~startFault)

C7_Witness == \E a \in Agents : Len(procs[a]) = NBatches

\* C8: in every agent, all rounds before the current one have exited with
\* success; at most the process of the last round is alive.
C8_RoundsSequential ==
    \A a \in Agents : \A i \in 1..(Len(procs[a]) - 1) : procs[a][i] = "exit0"

C8_Witness ==
    \E a \in Agents : Len(procs[a]) = 2 /\ procs[a][2] = "alive"

\* C9: an agent task that received CancelledError finishes as cancelled,
\* whatever the exit status of its process, and then none of its processes
\* is alive.
C9_CancelCleansUp ==
    \A a \in Agents :
        /\ (sawCancel[a] /\ apc[a] = "done") => outcome[a] = "cancelled"
        /\ outcome[a] = "cancelled" =>
               \A i \in 1..Len(procs[a]) : procs[a][i] # "alive"

C9_Witness ==
    \E a \in Agents : /\ outcome[a] = "cancelled"
                      /\ procs[a] # <<>> /\ Last(procs[a]) = "killed"

\* C10: an agent whose process exited non-zero in a round that was not
\* cancelled finishes with the error, and a task that returned normally ran
\* only rounds that exited with success.
C10_ProcessErrorPropagates ==
    \A a \in Agents :
        /\ (apc[a] = "done" /\ ~sawCancel[a] /\ procs[a] # <<>>
              /\ Last(procs[a]) = "exitErr") => outcome[a] = "err"
        /\ outcome[a] = "ok" =>
               \A i \in 1..Len(procs[a]) : procs[a][i] = "exit0"
        /\ \A i \in 1..(Len(procs[a]) - 1) : procs[a][i] # "exitErr"

C10_Witness ==
    \E a \in Agents : /\ outcome[a] = "err" /\ Len(procs[a]) = 1
                      /\ procs[a][1] = "exitErr"


\* ------------------------------------------------- claims on the planning
Rem == remaining[TheAgent]
Req == batch_ctr[TheAgent]

\* the batch a run with no checkpoint makes
FreshBatch ==
    batch(filter_by_checkpoint(AgentUrls(TheAgent), <<>>, version_ctr, MaxAttempts),
          n_batches)

\* the batch planned from the checkpoint as it was when round i started
BatchAtRound(a, i) ==
    batch(filter_by_checkpoint(AgentUrls(a), SubSeq(checkpoint[a], 1, requests[a][i].at),
                               version_ctr, MaxAttempts), n_batches)

RECURSIVE SumReq(_, _)
SumReq(reqs, k) ==
    IF reqs = <<>> THEN 0
    ELSE (IF k \in DOMAIN reqs[1].req THEN reqs[1].req[k] ELSE 0)
         + SumReq(Tail(reqs), k)

\* C11: the request given to the process of every round is the batch planned
\* from what remains according to the checkpoint when that round starts.
C11_RequestFromCurrentRemaining ==
    \A a \in Agents : \A i \in DOMAIN requests[a] :
        requests[a][i].req = BatchAtRound(a, i)

\* C12: in a run started again on the checkpoint of an earlier run, every
\* request is, category by category, at most the batch of a run with no
\* checkpoint.
C12_ResumeMonotone ==
    \A a \in Agents : (pastRuns[a] # <<>> /\ requests[a] # <<>>) =>
        LET fresh == FreshBatch
        IN  \A i \in DOMAIN requests[a] : \A k \in DOMAIN requests[a][i].req :
                /\ k \in DOMAIN fresh
                /\ requests[a][i].req[k] <= fresh[k]

C12_Witness ==
    /\ pastRuns[TheAgent] = <<"cancelled">>
    /\ requests[TheAgent] # <<>>
    /\ requests[TheAgent][1].req["h3"] < FreshBatch["h3"]

C14_NothingLeftReturns ==
    [][\A a \in Agents :
          (apc[a] = "init" /\ apc'[a] # "init" /\ ~acancel[a]
             /\ DOMAIN recover_from_checkpoint(a) = {})
          => /\ apc'[a] = "done" /\ outcome'[a] = "ok"
             /\ configPushed'[a] = configPushed[a]
             /\ procs'[a] = procs[a]
             /\ checkpoint'[a] = checkpoint[a]]_vars

C14_Witness ==
    /\ pastRuns[TheAgent] # <<>>
    /\ outcome[TheAgent] = "ok"
    /\ procs[TheAgent] = <<>>
    /\ configPushed[TheAgent] = 0
    /\ checkpoint[TheAgent] # <<>>

\* C15: every request given to a collection process has a category with a
\* positive count.
C15_RequestNeverEmpty ==
    \A a \in Agents : \A i \in DOMAIN requests[a] :
        /\ Len(requests[a]) = Len(procs[a])
        /\ \E k \in DOMAIN requests[a][i].req : requests[a][i].req[k] > 0

C15_Witness ==
    /\ Len(procs[TheAgent]) = 2
    /\ DOMAIN checkpoint[TheAgent] # {}
    /\ DOMAIN BatchAtRound(TheAgent, 2) = {}

\* C16: the config is pushed once, before the first process; a run with work
\* left that returns has run exactly n_batches rounds, and a run that ended
\* after fewer rounds ended with an error or a cancellation.
C16_PushOnceThenNRounds ==
    \A a \in Agents :
        /\ configPushed[a] <= 1
        /\ procs[a] # <<>> => configPushed[a] = 1
        /\ Len(procs[a]) <= n_batches
        /\ (outcome[a] = "ok" /\ DOMAIN remaining[a] # {})
              => (Len(procs[a]) = n_batches /\ configPushed[a] = 1)
        /\ (apc[a] = "done" /\ DOMAIN remaining[a] # {}
              /\ Len(procs[a]) < n_batches)
              => outcome[a] \in {"err", "cancelled"}

C16_Witness ==
    /\ outcome[TheAgent] = "ok" /\ n_batches = 2
    /\ Len(procs[TheAgent]) = 2 /\ configPushed[TheAgent] = 1

\* C17: the planned count of a category times n covers the count of every
\* entry, and one less would not cover the largest: it is ceil(max / n).
C17_CeilOfMax ==
    /\ cpc = "planned" =>
        /\ \A u \in DOMAIN Rem : \A k \in DOMAIN Rem[u] :
              Rem[u][k] > 0 => (k \in DOMAIN Req /\ Req[k] * n_batches >= Rem[u][k])
        /\ \A k \in DOMAIN Req : \E u \in DOMAIN Rem :
              k \in DOMAIN Rem[u] /\ (Req[k] - 1) * n_batches < Rem[u][k]
    /\ batch(TestCounters, 1) = Triple(40, 40, 110)
    /\ batch(TestCounters, 2) = Triple(20, 20, 55)
    /\ batch(TestCounters, 4) = Triple(10, 10, 28)

C17_Witness ==
    /\ cpc = "planned" /\ n_batches = 2
    /\ DOMAIN Rem = Urls
    /\ Rem["u1"] = [k \in Versions |-> IF k = "h3" THEN 3 ELSE 1]
    /\ Rem["u2"] = [k \in {"h3"} |-> 1]
    /\ Req = [k \in Versions |-> IF k = "h3" THEN 2 ELSE 1]

\* C18: every planned count is at least 1, and a category with a positive
\* count in some entry is planned.
C18_PositiveCounts ==
    /\ cpc = "planned" =>
        /\ \A k \in DOMAIN Req : Req[k] >= 1
        /\ \A k \in Versions :
              (\E u \in DOMAIN Rem : k \in DOMAIN Rem[u] /\ Rem[u][k] >= 1)
                  => k \in DOMAIN Req
    /\ batch(TestMinCount, 4) = Triple(2, 1, 1)

C18_Witness ==
    /\ cpc = "planned" /\ n_batches = 4
    /\ "tcp" \in DOMAIN Req /\ Req["tcp"] = 1
    /\ \E u \in DOMAIN Rem : "tcp" \in DOMAIN Rem[u] /\ Rem[u]["tcp"] = 1

\* C19: a category that no entry holds with a positive count is not a key of
\* the plan.
C19_NonPositiveDropped ==
    /\ cpc = "planned" =>
        \A k \in Versions :
            (\A u \in DOMAIN Rem : k \notin DOMAIN Rem[u] \/ Rem[u][k] <= 0)
                => k \notin DOMAIN Req
    /\ batch(TestEmpty, 4) = EmptyCounter

C19_Witness ==
    /\ cpc = "planned"
    /\ DOMAIN Rem = Urls
    /\ \A u \in Urls : Rem[u] = [k \in Versions |-> IF k = "h3" THEN 0 ELSE -1]
    /\ Req = EmptyCounter

\* C20: in a run that went through its n_batches rounds, the requests of the
\* rounds add up, for every category, to at least the largest count that
\* remained for it at the start of the run.
C20_RequestsCoverRemaining ==
    \A a \in Agents :
        (outcome[a] = "ok" /\ requests[a] # <<>>) =>
            \A u \in DOMAIN remaining[a] : \A k \in DOMAIN remaining[a][u] :
                SumReq(requests[a], k) >= remaining[a][u][k]

C20_Witness ==
    /\ outcome[TheAgent] = "ok" /\ n_batches = 2
    /\ Len(requests[TheAgent]) = 2
    /\ \E u \in DOMAIN Rem : Rem[u]["h3"] = 1
    /\ SumReq(requests[TheAgent], "h3") = 2


\* ------------------------------------- claims on checkpoints and configs
IsPrefix(s, t) == Len(s) <= Len(t) /\ SubSeq(t, 1, Len(s)) = s

\* text.split("\n"): the pieces of the text between its newlines
Lines(text) ==
    LET n == Len(text)
        NL == {i \in 1..n : SubSeq(text, i, i) = "\n"}
        Nth(j) == IF j = 0 THEN 0
                  ELSE IF j = Cardinality(NL) + 1 THEN n + 1
                  ELSE CHOOSE p \in NL : Cardinality({q \in NL : q <= p}) = j
    IN  [j \in 1..(Cardinality(NL) + 1) |->
            SubSeq(text, Nth(j - 1) + 1, Nth(j) - 1)]

\* the places of the lines of a text that are equal to line
Places(ls, line) == {i \in 1..Len(ls) : ls[i] = line}

\* C21: no step shortens or rewrites an agent's checkpoint: what the file
\* holds before a step is a prefix of what it holds after, so the lines of
\* a cancelled or failed run are there when the next run loads the file.
C21_AppendOnly ==
    [][\A a \in Agents : IsPrefix(checkpoint[a], checkpoint'[a])]_vars

C21_Witness ==
    /\ pastRuns[TheAgent] = <<"cancelled">>
    /\ requests[TheAgent] # <<>>
    /\ requests[TheAgent][1].at > 0
    /\ Len(checkpoint[TheAgent]) > requests[TheAgent][1].at

\* C22: a checkpoint file is removed only by main() after run() returned
\* without error and the files were concatenated to the output; when run()
\* raised, no file is ever removed.
C22_ClearOnlyAfterSuccess ==
    [][/\ unlinked' # unlinked =>
            /\ cpc = "done" /\ cerr = NoError
            /\ \A a \in Agents : outcome[a] = "ok"
            /\ mainpc = "clear"
            /\ outfile = CatFiles(AgentOrder)
       /\ (cpc' = "done" /\ cerr' # NoError) =>
            (unlinked' = {} /\ mainpc' \in {"run", "failed"})]_vars

C22_Witness ==
    /\ unlinked = Agents
    /\ outfile # <<>>
    /\ \E a \in Agents : procs[a] # <<>>

\* C25: the gateway config that start() pushes lists, after its interface
\* block, the peer block of every agent of the experiment, in agent order.
C25_AllPeersInPushedConfig ==
    [][pushed' # pushed =>
          LET ls == Lines(Last(pushed'))
          IN  /\ Len(ls) = 7 + 4 * NAgents
              /\ \A a \in Agents :
                    /\ ls[7 + 4 * (a - 1) + 1] = "[Peer]"
                    /\ ls[7 + 4 * (a - 1) + 2]
                         = "PublicKey = " \o clients[a].wg_conf.public_key
                    /\ ls[7 + 4 * (a - 1) + 3]
                         = "AllowedIPs = 10.0.0." \o ToString(a + 1) \o "/32"]_vars

C25_Witness ==
    /\ pushed # <<>>
    /\ \E a \in Agents : procs[a] # <<>>

\* C26: once start() has pushed the gateway config no step changes the
\* gateway's configuration, and when stop() is called the pushed text is
\* still the text of the config: same key, same clients in the same order.
C26_GatewayConfigFrozen ==
    [][/\ pushed # <<>> => wg' = wg
       /\ (stopCalls' # stopCalls /\ pushed # <<>>) =>
            Last(pushed) = GatewayToString(wg)]_vars

C26_Witness ==
    /\ stopCalls = 1
    /\ pushed # <<>>
    /\ \A a \in Agents : configPushed[a] = 1

\* C27: a CancelledError reaches a started agent only while it sleeps in
\* _collect_batch, the step that receives it writes nothing to the
\* checkpoint, and the task is cancelled only with its process no longer
\* running.
C27_CancelAtSuspensionPoint ==
    [][\A a \in Agents :
          (sawCancel'[a] /\ ~sawCancel[a]) =>
             /\ apc[a] \in {"init", "sleep2", "sleep30"}
             /\ apc[a] # "init" => procs[a] # <<>>
             /\ checkpoint' = checkpoint
             /\ apc'[a] = "done" /\ outcome'[a] = "cancelled"
             /\ ~IsAlive(procs'[a])]_vars

C27_Witness ==
    /\ sawCancel[TheAgent]
    /\ outcome[TheAgent] = "cancelled"
    /\ procs[TheAgent] # <<>> /\ Last(procs[TheAgent]) = "killed"
    /\ checkpoint[TheAgent] # <<>>

\* C28: when every agent's run() returned, TraceCollectionExperiment.run
\* returns one path per agent, in agent order, the path of agent a being
\* <checkpoint_dir>/peer-10_0_0_(a+1).state.
C28_ReturnsPathsInAgentOrder ==
    /\ (cpc = "done" /\ cerr = NoError) => returned # <<>>
    /\ returned # <<>> =>
          /\ Len(returned[1]) = NAgents
          /\ \A a \in Agents :
                /\ returned[1][a] = clients[a].checkpoint_path
                /\ returned[1][a] = CheckpointDir \o "/peer-10_0_0_"
                                      \o ToString(a + 1) \o ".state"

C28_Witness ==
    /\ returned # <<>>
    /\ \A a \in Agents : Len(procs[a]) = NBatches


\* ------------------------------------------ claims on the construction
\* the agents (by number) whose url list holds the url at place p
Holders(p) ==
    {n \in 1..Len(clients) :
        \E j \in 1..Len(clients[n].urls) : clients[n].urls[j].pos = p}

\* C23 as stated: the url at place p (counted from 0) of the list is held
\* by agent p mod k and by no other agent, for every place of the list.
C23_RoundRobinEveryUrl ==
    cpc = "built" =>
        \A p \in 1..Len(urlfile) :
            Holders(p) = {((p - 1) % Len(clients)) + 1}

\* C23 amended: a url without an explicit port at place p (counted from 0)
\* is held by agent p mod k and by no other agent; a url with a port is
\* held by no agent; every agent holds its urls in the order of the list.
C23_RoundRobinUrlsWithoutPort ==
    cpc = "built" =>
        /\ \A p \in 1..Len(urlfile) :
              Holders(p) = IF urlfile[p].port THEN {}
                           ELSE {((p - 1) % Len(clients)) + 1}
        /\ \A n \in 1..Len(clients) : \A i, j \in 1..Len(clients[n].urls) :
              /\ clients[n].urls[i] = urlfile[clients[n].urls[i].pos]
              /\ i < j => clients[n].urls[i].pos < clients[n].urls[j].pos

C23_Witness ==
    /\ cpc = "built"
    /\ Len(clients) = 2 /\ Len(urlfile) = 4
    /\ urlfile[2].port /\ ~urlfile[4].port
    /\ Len(clients[1].urls) = 2 /\ Len(clients[2].urls) = 1

\* C24: the agents of an experiment have pairwise different addresses,
\* slugs and checkpoint paths, the path of agent n being
\* <checkpoint_dir>/peer-10_0_0_(n+1).state, whatever nodes they are on.
C24_OwnCheckpointFile ==
    cpc = "built" =>
        /\ \A n \in 1..Len(clients) :
              clients[n].checkpoint_path
                 = CheckpointDir \o "/peer-10_0_0_" \o ToString(n + 1) \o ".state"
        /\ \A m, n \in 1..Len(clients) : m # n =>
              /\ clients[m].wg_conf.address # clients[n].wg_conf.address
              /\ clients[m].checkpoint_path # clients[n].checkpoint_path

C24_Witness ==
    /\ cpc = "built"
    /\ Len(clients) = 3
    /\ \A n \in 1..3 : clients[n].node = "localhost"

\* C29: the text rendered for the gateway has one [Interface] block of
\* seven lines, then one [Peer] block of four lines for each client of the
\* gateway, in the order of its client list, and nothing else.
C29_GatewayRendering ==
    /\ [][(rendered' # rendered /\ rendered'.kind = "gateway") =>
            LET ls == Lines(rendered'.text)
                n == Len(wg.clients)
            IN  /\ Len(ls) = 7 + 4 * n
                /\ Places(ls, "[Interface]") = {1}
                /\ ls[2] = "PrivateKey = " \o wg.private_key
                /\ ls[3] = "Address = 10.0.0.1/24"
                /\ ls[4] = "ListenPort = 51888"
                /\ ls[5] = "PostUp = iptables -t nat -A POSTROUTING -o eth0 -j MASQUERADE"
                /\ ls[6] = "PostDown = iptables -t nat -D POSTROUTING -o eth0 -j MASQUERADE"
                /\ ls[7] = ""
                /\ Places(ls, "[Peer]") = {7 + 4 * (i - 1) + 1 : i \in 1..n}
                /\ \A i \in 1..n :
                      /\ ls[7 + 4 * (i - 1) + 2]
                            = "PublicKey = " \o wg.clients[i].public_key
                      /\ ls[7 + 4 * (i - 1) + 3]
                            = "AllowedIPs = " \o wg.clients[i].address \o "/32"
                      /\ ls[7 + 4 * (i - 1) + 4] = ""]_vars
    /\ GatewayToString(TestGateway)
         = "[Interface]\nPrivateKey = privkey\nAddress = 10.0.0.1/24\nListenPort = 51888\nPostUp = iptables -t nat -A POSTROUTING -o eth0 -j MASQUERADE\nPostDown = iptables -t nat -D POSTROUTING -o eth0 -j MASQUERADE\n"
    /\ GatewayToString(set_clients(TestGateway, <<TestClient(1), TestClient(2)>>))
         = "[Interface]\nPrivateKey = privkey\nAddress = 10.0.0.1/24\nListenPort = 51888\nPostUp = iptables -t nat -A POSTROUTING -o eth0 -j MASQUERADE\nPostDown = iptables -t nat -D POSTROUTING -o eth0 -j MASQUERADE\n\n[Peer]\nPublicKey = client1_pubkey\nAllowedIPs = 10.0.0.2/32\n\n[Peer]\nPublicKey = client2_pubkey\nAllowedIPs = 10.0.0.3/32\n"

C29_Witness ==
    /\ rendered.kind = "gateway"
    /\ Len(wg.clients) = 2
    /\ wg.clients[1].address = "10.0.0.3" /\ wg.clients[2].address = "10.0.0.2"
    /\ Cardinality(Places(Lines(rendered.text), "[Peer]")) = 2

\* C30: the text rendered for a client has an [Interface] block with the
\* client's private key and its address as /32, then one [Peer] block with
\* the public key and the endpoint, port 51888, of the gateway as it is
\* when the text is rendered.
C30_ClientRendering ==
    /\ [][(rendered' # rendered /\ rendered'.kind = "client") =>
            LET ls == Lines(rendered'.text)
                c == clients[rendered'.who].wg_conf
            IN  /\ rendered'.ok = (c.gateway /\ wg.endpoint # "")
                /\ rendered'.ok =>
                     /\ Len(ls) = 9
                     /\ Places(ls, "[Interface]") = {1}
                     /\ ls[2] = "PrivateKey = " \o c.private_key
                     /\ ls[3] = "Address = " \o c.address \o "/32"
                     /\ ls[4] = ""
                     /\ Places(ls, "[Peer]") = {5}
                     /\ ls[6] = "PublicKey = " \o wg.public_key
                     /\ ls[7] = "Endpoint = " \o wg.endpoint \o ":51888"
                     /\ ls[8] = "AllowedIPs = 0.0.0.0/0"
                     /\ ls[9] = ""]_vars
    /\ ClientToString(TestClient(1), TestGateway)
         = "[Interface]\nPrivateKey = client1_privkey\nAddress = 10.0.0.2/32\n\n[Peer]\nPublicKey = pubkey\nEndpoint = localhost:51888\nAllowedIPs = 0.0.0.0/0\n"
    /\ ClientToString(TestClient(2), TestGateway)
         = "[Interface]\nPrivateKey = client2_privkey\nAddress = 10.0.0.3/32\n\n[Peer]\nPublicKey = pubkey\nEndpoint = localhost:51888\nAllowedIPs = 0.0.0.0/0\n"

C30_Witness ==
    /\ rendered.kind = "client" /\ rendered.ok /\ rendered.who = 2
    /\ wg.public_key = "gw_pubkey"
    /\ Len(wg.clients) = 1 /\ wg.clients[1].address = "10.0.0.2"
    /\ Lines(rendered.text)[6] = "PublicKey = gw_pubkey"


\* ------------------------------------------- claims on the wireguard configs
\* the client configs that a list of client numbers names
CsOf(o) == [i \in 1..Len(o) |-> clients[o[i]].wg_conf]

\* the numbers of the clients that the gateway config lists, in its order
Listed == [i \in 1..Len(wg.clients) |->
             CHOOSE n \in 1..Len(clients) :
                 clients[n].wg_conf.address = wg.clients[i].address]

\* C31: a client config renders exactly when it has a gateway and that
\* gateway has an endpoint: without a gateway, or with a gateway without an
\* endpoint, to_string fails and gives no text; otherwise it gives a text.
C31_NoGatewayNoRendering ==
    rendered.kind = "client" =>
        LET c == clients[rendered.who].wg_conf
        IN  /\ (~c.gateway \/ wg.endpoint = "") =>
                  (~rendered.ok /\ rendered.text = "")
            /\ (c.gateway /\ wg.endpoint # "") =>
                  (rendered.ok /\ Len(rendered.text) > 0)

C31_Witness ==
    /\ rendered.kind = "client" /\ ~rendered.ok
    /\ wg.endpoint = "localhost"
    /\ ~clients[rendered.who].wg_conf.gateway
    /\ \E n \in 1..Len(clients) : clients[n].wg_conf.gateway

\* C32: whatever clients the gateway config has, set_clients(cs) leaves it
\* with exactly the clients of cs in the order of cs, and every step that
\* sets clients leaves every client it lists with its back-reference, the
\* other clients being left as they were.
C32_SetClientsReplaces ==
    /\ [](\A o \in Orders(Len(clients)) :
            LET after == set_clients(wg, CsOf(o)).clients
            IN  /\ Len(after) = Len(o)
                /\ \A i \in 1..Len(o) :
                      /\ after[i].address = clients[o[i]].wg_conf.address
                      /\ after[i].public_key = clients[o[i]].wg_conf.public_key
                      /\ after[i].gateway)
    /\ [][(wg' # wg \/ clients' # clients) =>
            \E o \in Orders(Len(clients)) :
               /\ wg'.clients = set_clients(wg, CsOf(o)).clients
               /\ Len(wg'.clients) = Len(o)
               /\ \A n \in 1..Len(clients) :
                     clients'[n].wg_conf.gateway =
                        (clients[n].wg_conf.gateway
                         \/ \E i \in 1..Len(o) : o[i] = n)]_vars

C32_Witness ==
    /\ Len(clients) = 2
    /\ Listed = <<2>>
    /\ clients[1].wg_conf.gateway /\ clients[2].wg_conf.gateway

\* C33: a client is in the gateway config's client list if and only if the
\* client's back-reference is that gateway.
C33_MembershipIffBackReference ==
    cpc = "render" =>
        \A n \in 1..Len(clients) :
            (\E i \in 1..Len(Listed) : Listed[i] = n)
                <=> clients[n].wg_conf.gateway


\* ------------------------------------------------ claims on the whole run
\* C34: every step of run() that stops the gateway is taken with every
\* agent task finished and no agent's process running.
C34_StopAfterAgents ==
    [][stopCalls' # stopCalls =>
          \A a \in Agents :
              /\ apc[a] = "done"
              /\ outcome[a] # "none"
              /\ ~IsAlive(procs[a])]_vars

\* C35: when start() raised after the container was launched, run() does
\* not end with that container still running and stop() never called; a
\* container that is left is at least still the one the handle names.
C35_FailedStartLeavesNoGateway ==
    (cpc = "done" /\ startOk = 0) =>
        \A c \in ContainerIds :
            containers[c] = "running" =>
                /\ container_id = c
                /\ stopCalls > 0

\* C36: when an agent's run() has returned its checkpoint path, the file
\* of that path exists until main() removes it.
C36_ReturnedFileExists ==
    \A a \in Agents :
        (apc[a] = "done" /\ outcome[a] = "ok" /\ a \notin unlinked)
            => a \in onDisk

\* the largest count that remains of category k over the urls of agent a,
\* as run() computed it at its start
MaxRemaining(a, k) ==
    Max({0} \cup {remaining[a][u][k] :
                     u \in {v \in DOMAIN remaining[a] :
                               k \in DOMAIN remaining[a][v]}})

\* C37: the requests an agent has made in the rounds of a run add up, for
\* every category, to no more than the largest count that remained for it
\* when the run started.
C37_NoOverCollection ==
    \A a \in Agents : \A k \in Versions :
        (sawCancel[a] = FALSE /\ requests[a] # <<>>) =>
            SumReq(requests[a], k) <= MaxRemaining(a, k)

\* run() has ended with no agent task unfinished, no agent's process
\* running and the gateway handle cleared
EndedClean ==
    /\ \A a \in Agents : apc[a] \in {"unborn", "done"} /\ ~IsAlive(procs[a])
    /\ container_id = None

\* C38: with the loop running, timers firing and every process exiting,
\* run() finishes, and when it has finished every agent task has ended and
\* the gateway handle is cleared.
C38_RunFinishesClean ==
    /\ <>(cpc = "done")
    /\ [](cpc = "done" => EndedClean)

====
